---- MODULE Spec2Model ----
(***************************************************************************)
(* State-machine model of the haptic-toolbox crate: DeadbandDetector       *)
(* (src/src/deadband.rs), ISS (src/src/iss.rs), TDPA (src/src/tdpa.rs) and *)
(* WAVE (src/src/wave.rs).                                                 *)
(*                                                                         *)
(* The scalar field N: RealField is modelled at N = f64, the type of the   *)
(* crate's doc test: IEEE 754 binary64 with round-to-nearest, ties to      *)
(* even, gradual underflow, overflow to infinity and NaN.  A scalar is a   *)
(* tuple <<k, s, m, e>>: k = 0 is the finite value s * m * 2^e with sign   *)
(* s in {-1, 0, 1} and m an odd natural number (zero is <<0, 0, <<>>, 0>>),*)
(* k = 1 is the infinity of sign s and k = 2 is NaN.  A natural number of  *)
(* any size is the sequence of its base-2^15 digits, least significant     *)
(* first, <<>> for zero.  -0.0 is not told apart from 0.0: the two compare  *)
(* equal and differ only as divisors; the divisors of the code are dt,     *)
(* mu_max, b * 2 and sqrt(b * 2), which are -0.0 only when the caller      *)
(* passes -0.0, and dot(vel, vel), which is never -0.0.                    *)
(* A vector VectorN<N, D> is a tuple of scalars.                           *)
(*                                                                         *)
(* The model follows one instance at a time: no operation of the crate     *)
(* takes two instances, and every instance owns its fields.                *)
(***************************************************************************)
EXTENDS Integers, Sequences, FiniteSets, TLC

VARIABLES instance, last, run

vars == <<instance, last, run>>

----------------------------------------------------------------------------
(* Natural numbers of any size *)

LimbBits == 15
Base == 2^LimbBits
Abs(n) == IF n < 0 THEN -n ELSE n
Maxi(a, b) == IF a < b THEN b ELSE a
Mini(a, b) == IF a < b THEN a ELSE b

Limb(a, i) == IF i <= Len(a) THEN a[i] ELSE 0
Rest(a) == IF a = <<>> THEN a ELSE Tail(a)
ShiftLimbs(a, n) == IF a = <<>> THEN a ELSE [i \in 1..n |-> 0] \o a

RECURSIVE BNorm(_)
BNorm(a) ==
    IF a = <<>> THEN a
    ELSE IF a[Len(a)] = 0 THEN BNorm(SubSeq(a, 1, Len(a) - 1)) ELSE a

RECURSIVE BFromInt(_)
BFromInt(n) == IF n = 0 THEN <<>> ELSE <<n % Base>> \o BFromInt(n \div Base)

RECURSIVE BCmpFrom(_, _, _)
BCmpFrom(a, b, i) ==
    IF i = 0 THEN 0
    ELSE IF a[i] # b[i] THEN (IF a[i] < b[i] THEN -1 ELSE 1)
    ELSE BCmpFrom(a, b, i - 1)

BCmp(a, b) ==
    IF Len(a) # Len(b) THEN (IF Len(a) < Len(b) THEN -1 ELSE 1)
    ELSE BCmpFrom(a, b, Len(a))

RECURSIVE BAddC(_, _, _)
BAddC(a, b, c) ==
    IF a = <<>> /\ b = <<>> THEN (IF c = 0 THEN <<>> ELSE <<c>>)
    ELSE LET t == Limb(a, 1) + Limb(b, 1) + c
         IN  <<t % Base>> \o BAddC(Rest(a), Rest(b), t \div Base)

BAdd(a, b) == BAddC(a, b, 0)

RECURSIVE BSubB(_, _, _)
BSubB(a, b, br) ==
    IF a = <<>> THEN <<>>
    ELSE LET t == a[1] - Limb(b, 1) - br
         IN  <<IF t < 0 THEN t + Base ELSE t>>
                 \o BSubB(Tail(a), Rest(b), IF t < 0 THEN 1 ELSE 0)

BSub(a, b) == BNorm(BSubB(a, b, 0))

RECURSIVE BMulSmallC(_, _, _)
BMulSmallC(a, k, c) ==
    IF a = <<>> THEN (IF c = 0 THEN <<>> ELSE <<c>>)
    ELSE LET t == a[1] * k + c
         IN  <<t % Base>> \o BMulSmallC(Tail(a), k, t \div Base)

BMulSmall(a, k) == IF k = 0 THEN <<>> ELSE BMulSmallC(a, k, 0)

RECURSIVE BMul(_, _)
BMul(a, b) ==
    IF a = <<>> \/ b = <<>> THEN <<>>
    ELSE BAdd(BMulSmall(a, b[1]), ShiftLimbs(BMul(a, Tail(b)), 1))

RECURSIVE BDivSmallR(_, _, _, _)
BDivSmallR(a, k, i, rem) ==
    IF i = 0 THEN <<>>
    ELSE LET t == rem * Base + a[i]
         IN  BDivSmallR(a, k, i - 1, t % k) \o <<t \div k>>

BDivSmall(a, k) == BNorm(BDivSmallR(a, k, Len(a), 0))

BShl(a, k) == ShiftLimbs(BMulSmall(a, 2^(k % LimbBits)), k \div LimbBits)

BShr(a, k) ==
    LET d == k \div LimbBits
        b == IF d >= Len(a) THEN <<>> ELSE SubSeq(a, d + 1, Len(a))
    IN  IF k % LimbBits = 0 THEN b ELSE BDivSmall(b, 2^(k % LimbBits))

RECURSIVE BitLenInt(_)
BitLenInt(n) == IF n = 0 THEN 0 ELSE 1 + BitLenInt(n \div 2)

BitLen(a) ==
    IF a = <<>> THEN 0 ELSE LimbBits * (Len(a) - 1) + BitLenInt(a[Len(a)])

BBit(a, i) ==
    LET j == i \div LimbBits + 1
    IN  IF j > Len(a) THEN 0 ELSE (a[j] \div 2^(i % LimbBits)) % 2

RECURSIVE TZInt(_)
TZInt(n) == IF n % 2 = 1 THEN 0 ELSE 1 + TZInt(n \div 2)

RECURSIVE BTZ(_)
BTZ(a) == IF a[1] = 0 THEN LimbBits + BTZ(Tail(a)) ELSE TZInt(a[1])

\* the largest digit g in lo..hi with d * g <= r
RECURSIVE BDigit(_, _, _, _)
BDigit(r, d, lo, hi) ==
    IF lo >= hi THEN lo
    ELSE LET mid == (lo + hi + 1) \div 2
         IN  IF BCmp(BMulSmall(d, mid), r) <= 0
             THEN BDigit(r, d, mid, hi)
             ELSE BDigit(r, d, lo, mid - 1)

\* <<quotient, remainder>> of n by d, limb by limb from limb i down; the
\* digit lies between the quotients of the leading limbs of r by the leading
\* limb of d, rounded up and down
RECURSIVE BDivModR(_, _, _, _, _)
BDivModR(n, d, i, q, r) ==
    IF i = 0 THEN <<BNorm(q), r>>
    ELSE LET r2 == BNorm(<<n[i]>> \o r)
             rt == Limb(r2, Len(d) + 1) * Base + Limb(r2, Len(d))
             dt == d[Len(d)]
             g == BDigit(r2, d, rt \div (dt + 1),
                         Mini(Base - 1, (rt + 1) \div dt))
         IN  BDivModR(n, d, i - 1, <<g>> \o q, BSub(r2, BMulSmall(d, g)))

\* both operands are shifted to make the leading limb of d at least
\* Base / 2; the leading Len(d) - 1 limbs of n are below d
BUnshift(qr, s) == <<qr[1], BShr(qr[2], s)>>

BDivModFrom(n, d, i, s) ==
    BUnshift(BDivModR(n, d, i, <<>>, SubSeq(n, i + 1, Len(n))), s)

BDivModShifted(n, d, s) == BDivModFrom(n, d, Len(n) - Len(d) + 1, s)

BDivModBy(n, d, s) == BDivModShifted(BShl(n, s), BShl(d, s), s)

BDivMod(n, d) ==
    IF BCmp(n, d) < 0 THEN <<(<<>>), n>>
    ELSE BDivModBy(n, d, LimbBits - BitLenInt(d[Len(d)]))

\* twice the quotient or root qr[1], plus one when the remainder qr[2] is
\* not zero
BSticky(qr) ==
    BAdd(BMulSmall(qr[1], 2), IF qr[2] = <<>> THEN <<>> ELSE <<1>>)

\* the integer root of n < 2^31
RECURSIVE ISqrtR(_, _)
ISqrtR(n, x) ==
    LET y == (x + n \div x) \div 2
    IN  IF y >= x THEN x ELSE ISqrtR(n, y)

ISqrt(n) == IF n = 0 THEN 0 ELSE ISqrtR(n, 2^((BitLenInt(n) + 1) \div 2))

\* the largest digit g in lo..hi with (2 * r * Base + g) * g <= rem, r2 = 2 * r
RECURSIVE BSqrtDigit(_, _, _, _)
BSqrtDigit(r2, rem, lo, hi) ==
    IF lo >= hi THEN lo
    ELSE LET mid == (lo + hi + 1) \div 2
         IN  IF BCmp(BMulSmall(<<mid>> \o r2, mid), rem) <= 0
             THEN BSqrtDigit(r2, rem, mid, hi)
             ELSE BSqrtDigit(r2, rem, lo, mid - 1)

\* <<root, remainder>> of the leading limbs of n, two limbs by two limbs from
\* pair i down; the digit lies between the quotients of the leading limbs of
\* rem / 2 by the leading limb of r, rounded up and down
RECURSIVE BSqrtRemR(_, _, _, _)
BSqrtRemR(n, i, r, rem) ==
    IF i = 0 THEN <<r, rem>>
    ELSE LET rem2 == BNorm(<<n[2 * i - 1], n[2 * i]>> \o rem)
             half == BDivSmall(rem2, 2)
             rt == Limb(half, Len(r) + 2) * Base + Limb(half, Len(r) + 1)
             dt == r[Len(r)]
             r2 == BMulSmall(r, 2)
             g == IF r = <<>> THEN ISqrt(n[2 * i] * Base + n[2 * i - 1])
                  ELSE BSqrtDigit(r2, rem2, Mini(Base - 1, rt \div (dt + 1)),
                                  Mini(Base - 1, (rt + 1) \div dt))
         IN  BSqrtRemR(n, i - 1, <<g>> \o r,
                       BSub(rem2, BMulSmall(<<g>> \o r2, g)))

\* n has an even number of limbs and its leading pair is at least Base^2 / 4
BSqrtRem(n) == BSqrtRemR(n, Len(n) \div 2, <<>>, <<>>)

----------------------------------------------------------------------------
(* Scalars: N = f64 *)

\* bits of the significand, and the exponents of the smallest subnormal and
\* of the overflow threshold
MantissaBits == 53
MinExponent == -1074
MaxExponent == 1024

Zero == <<0, 0, <<>>, 0>>
PosInf == <<1, 1, <<>>, 0>>
NegInf == <<1, -1, <<>>, 0>>
NaN == <<2, 0, <<>>, 0>>

IsNaN(x) == x[1] = 2
IsFinite(x) == x[1] = 0
Sign(x) == x[2]

\* the exact value s * m * 2^e with the mantissa made odd
XNorm(s, m, e) ==
    IF m = <<>> \/ s = 0 THEN Zero
    ELSE LET tz == BTZ(m) IN <<0, s, BShr(m, tz), e + tz>>

\* the exponent of the power of two just above |x|, x finite and not zero
Top(x) == BitLen(x[3]) + x[4]

\* the bits a significand of len bits at exponent e has beyond the precision
Excess(len, e) ==
    IF len + e - MantissaBits < MinExponent THEN MinExponent - e
    ELSE len - MantissaBits

\* m without its low k bits, rounded: m is odd, so the bits dropped are a
\* tie only when k = 1
RoundBits(m, k) ==
    IF BBit(m, k - 1) = 1 /\ (k >= 2 \/ BBit(m, k) = 1)
    THEN BAdd(BShr(m, k), <<1>>) ELSE BShr(m, k)

Overflow(y, s) ==
    IF Sign(y) # 0 /\ Top(y) > MaxExponent THEN <<1, s, <<>>, 0>> ELSE y

RoundAt(x, k) ==
    Overflow(IF k <= 0 THEN x
             ELSE XNorm(Sign(x), RoundBits(x[3], k), x[4] + k), Sign(x))

\* round to nearest, ties to even, to 53 bits (fewer below 2^-1022);
\* beyond 2^1024 the result is infinite
Round(x) == IF Sign(x) = 0 THEN x ELSE RoundAt(x, Excess(BitLen(x[3]), x[4]))

R(n) == XNorm(IF n < 0 THEN -1 ELSE 1, BFromInt(Abs(n)), 0)
One == R(1)
Two == R(2)

Neg(x) == <<x[1], -x[2], x[3], x[4]>>

\* sx * a * 2^e + sy * b * 2^e
XAddAligned(sx, a, sy, b, e) ==
    IF sx = sy THEN XNorm(sx, BAdd(a, b), e)
    ELSE IF BCmp(a, b) >= 0 THEN XNorm(sx, BSub(a, b), e)
    ELSE XNorm(sy, BSub(b, a), e)

XAddAt(x, y, e) ==
    XAddAligned(Sign(x), BShl(x[3], x[4] - e), Sign(y), BShl(y[3], y[4] - e), e)

XAdd(x, y) ==
    IF Sign(x) = 0 THEN y
    ELSE IF Sign(y) = 0 THEN x
    ELSE XAddAt(x, y, Mini(x[4], y[4]))

XMul(x, y) == XNorm(Sign(x) * Sign(y), BMul(x[3], y[3]), x[4] + y[4])

\* an operand below 2^-64 of the other one is below half the distance from
\* the other one to its neighbours, and the sum rounds to the other one
Add(x, y) ==
    IF IsNaN(x) \/ IsNaN(y) THEN NaN
    ELSE IF ~IsFinite(x) THEN (IF ~IsFinite(y) /\ y # x THEN NaN ELSE x)
    ELSE IF ~IsFinite(y) THEN y
    ELSE IF Sign(x) = 0 THEN y
    ELSE IF Sign(y) = 0 THEN x
    ELSE IF Top(x) - Top(y) > MantissaBits + 11 THEN x
    ELSE IF Top(y) - Top(x) > MantissaBits + 11 THEN y
    ELSE Round(XAdd(x, y))

Sub(x, y) == Add(x, Neg(y))

Mul(x, y) ==
    IF IsNaN(x) \/ IsNaN(y) THEN NaN
    ELSE IF ~IsFinite(x) \/ ~IsFinite(y)
         THEN (IF Sign(x) = 0 \/ Sign(y) = 0 THEN NaN
               ELSE <<1, Sign(x) * Sign(y), <<>>, 0>>)
    ELSE Round(XMul(x, y))

\* the quotient of the significands, x's shifted left by sh bits to give the
\* quotient two bits more than the precision, and a last bit that says
\* whether a remainder is left
DivAt(x, y, sh) ==
    Round(XNorm(Sign(x) * Sign(y), BSticky(BDivMod(BShl(x[3], sh), y[3])),
                x[4] - y[4] - sh - 1))

Div(x, y) ==
    IF IsNaN(x) \/ IsNaN(y) THEN NaN
    ELSE IF ~IsFinite(x)
         THEN (IF ~IsFinite(y) THEN NaN
               ELSE <<1, Sign(x) * (IF Sign(y) < 0 THEN -1 ELSE 1), <<>>, 0>>)
    ELSE IF ~IsFinite(y) THEN Zero
    ELSE IF Sign(y) = 0
         THEN (IF Sign(x) = 0 THEN NaN ELSE <<1, Sign(x), <<>>, 0>>)
    ELSE IF Sign(x) = 0 THEN Zero
    ELSE IF y[3] = <<1>>
         THEN Round(XNorm(Sign(x) * Sign(y), x[3], x[4] - y[4]))
    ELSE DivAt(x, y, Maxi(0, BitLen(y[3]) + MantissaBits + 2 - BitLen(x[3])))

CmpAt(x, y, e) == BCmp(BShl(x[3], x[4] - e), BShl(y[3], y[4] - e))

\* -1, 0, 1: the order of two finite values
Cmp(x, y) ==
    IF Sign(x) # Sign(y) THEN (IF Sign(x) < Sign(y) THEN -1 ELSE 1)
    ELSE IF Sign(x) = 0 THEN 0
    ELSE IF Top(x) # Top(y) THEN (IF Top(x) < Top(y) THEN -Sign(x) ELSE Sign(x))
    ELSE Sign(x) * CmpAt(x, y, Mini(x[4], y[4]))

Lt(x, y) ==
    /\ ~IsNaN(x)
    /\ ~IsNaN(y)
    /\ IF x = PosInf \/ y = NegInf THEN FALSE
       ELSE IF x = NegInf \/ y = PosInf THEN TRUE
       ELSE Cmp(x, y) < 0

Gt(x, y) == Lt(y, x)
Eq(x, y) == ~IsNaN(x) /\ ~IsNaN(y) /\ x = y
Ge(x, y) == Gt(x, y) \/ Eq(x, y)

IsSquare(n) == ISqrt(n) * ISqrt(n) = n

\* the value of the two low limbs of m
Low(m) == Limb(m, 2) * Base + Limb(m, 1)

\* the root of m * 4^t, as a value times 2^h
SqrtScaled(m, h, t) ==
    Round(XNorm(1, BSticky(BSqrtRem(BShl(m, 2 * t))), h - t - 1))

SqrtLarge(m, h) == SqrtScaled(m, h, (8 * LimbBits - BitLen(m)) \div 2)

\* the root of m * 4^h: the root of a square below 2^30 is exact; otherwise
\* m is scaled to 119 or 120 bits, and the 60-bit integer root with a last
\* bit that says whether a remainder is left is rounded
SqrtEven(m, h) ==
    IF Len(m) <= 2 /\ IsSquare(Low(m))
    THEN Round(XNorm(1, BFromInt(ISqrt(Low(m))), h))
    ELSE SqrtLarge(m, h)

Sqrt(x) ==
    IF IsNaN(x) \/ Sign(x) < 0 THEN NaN
    ELSE IF x = PosInf \/ Sign(x) = 0 THEN x
    ELSE SqrtEven(IF x[4] % 2 = 0 THEN x[3] ELSE BMulSmall(x[3], 2),
                  x[4] \div 2)

\* the literal n / d, n and d integers
Make(n, d) == Div(R(n), R(d))

----------------------------------------------------------------------------
(* Vectors: VectorN<N, D> *)

RECURSIVE SumSeq(_)
SumSeq(s) ==
    IF Len(s) = 1 THEN s[1]
    ELSE Add(SumSeq(SubSeq(s, 1, Len(s) - 1)), s[Len(s)])

VAdd(u, v) == [i \in DOMAIN u |-> Add(u[i], v[i])]
VSub(u, v) == [i \in DOMAIN u |-> Sub(u[i], v[i])]
VScale(u, k) == [i \in DOMAIN u |-> Mul(u[i], k)]
VDiv(u, k) == [i \in DOMAIN u |-> Div(u[i], k)]
Dot(u, v) == SumSeq([i \in DOMAIN u |-> Mul(u[i], v[i])])
VNorm(u) == Sqrt(Dot(u, u))
VEq(u, v) == \A i \in DOMAIN u : Eq(u[i], v[i])
Vec(x, y) == <<R(x), R(y)>>
ZeroVec == Vec(0, 0)

----------------------------------------------------------------------------
(* The history of a newly constructed instance: no calculate_force call yet *)

Run_initial == [calls |-> 0, all_zero |-> TRUE, guarded |-> TRUE]

----------------------------------------------------------------------------
(* DeadbandDetector, src/src/deadband.rs *)

\* threshold arguments: out of domain (negative), zero, the doc test's 0.1,
\* and 1
Thresholds == {Make(-1, 2), Zero, Make(1, 10), One}

\* samples: the corners of a 3-4-5 triangle, and a sample whose norm is not
\* a rational number
Samples == {Vec(0, 0), Vec(3, 0), Vec(0, 4), Vec(1, 1)}

set_deadband(self) ==
    [self EXCEPT !.deadband = Mul(self.threshold, VNorm(self.prev_vals))]

DeadbandDetector_new(threshold, initial_vals) ==
    set_deadband([type |-> "DeadbandDetector", prev_vals |-> initial_vals,
                  deadband |-> Zero, threshold |-> threshold])

\* is_in_deadband adopting the sample whatever the comparison says
is_in_deadband_always_adopts(self, vals) ==
    [self |-> set_deadband([self EXCEPT !.prev_vals = vals]),
     ret |-> ~Gt(VNorm(VSub(self.prev_vals, vals)), self.deadband)]

\* self after the call, and the value returned
is_in_deadband(self, vals) ==
    IF Gt(VNorm(VSub(self.prev_vals, vals)), self.deadband)
    THEN [self |-> set_deadband([self EXCEPT !.prev_vals = vals]),
          ret |-> FALSE]
    ELSE [self |-> self, ret |-> TRUE]

\* self after the call, and whether the assertion passed
set_threshold(self, t) ==
    IF Ge(t, Zero)
    THEN [self |-> [self EXCEPT !.threshold = t], ok |-> TRUE]
    ELSE [self |-> self, ok |-> FALSE]

threshold(self) == self.threshold

set_prev_vals(self, vals) == [self EXCEPT !.prev_vals = vals]

DDNew ==
    \E t \in Thresholds, v \in Samples :
        /\ instance' = DeadbandDetector_new(t, v)
        /\ last' = [op |-> "DeadbandDetector::new", threshold |-> t,
                    vals |-> v, ok |-> TRUE]
        /\ run' = Run_initial

DDIsInDeadband ==
    /\ instance.type = "DeadbandDetector"
    /\ \E v \in Samples :
        \E r \in {is_in_deadband(instance, v)} :
            /\ instance' = r.self
            /\ last' = [op |-> "is_in_deadband", vals |-> v, ret |-> r.ret]
            /\ UNCHANGED run

DDSetThreshold ==
    /\ instance.type = "DeadbandDetector"
    /\ \E t \in Thresholds :
        \E r \in {set_threshold(instance, t)} :
            /\ instance' = r.self
            /\ last' = [op |-> "set_threshold", threshold |-> t, ok |-> r.ok]
            /\ UNCHANGED run

DDThreshold ==
    /\ instance.type = "DeadbandDetector"
    /\ last' = [op |-> "threshold", ret |-> threshold(instance)]
    /\ UNCHANGED <<instance, run>>

DDSetPrevVals ==
    /\ instance.type = "DeadbandDetector"
    /\ \E v \in Samples :
        /\ instance' = set_prev_vals(instance, v)
        /\ last' = [op |-> "set_prev_vals", vals |-> v]
        /\ UNCHANGED run

----------------------------------------------------------------------------
(* ISS, src/src/iss.rs *)

\* tau arguments: out of domain (negative), zero, positive
Taus == {R(-1), Zero, Make(1, 10)}

\* mu_max arguments: out of domain (negative, zero), positive
MuMaxs == {R(-1), Zero, R(3)}

\* time steps; zero is the step the caller must not pass, 0.001 is the step
\* of a 1 kHz loop
Dts == {Zero, Make(1, 1000), Two}

\* forces and velocities: with b = 2 the wave pair of the force 0.1 and the
\* velocity 1 is rounded
ForceSamples == {Vec(0, 0), Vec(-2, 1), Vec(2, 2), <<R(-2), Make(1, 10)>>}

VelSamples == {Vec(0, 0), Vec(0, -2), Vec(-1, 1)}

\* the instance built, and whether the assertion passed
ISS_new(tau, mu_max) ==
    [self |-> [type |-> "ISS", tau |-> tau, mu_max |-> mu_max,
               prev_force |-> ZeroVec],
     ok |-> Gt(mu_max, Zero)]

\* calculate_force without the update of prev_force
ISS_calculate_force_stale(self, force, dt) ==
    [self |-> self,
     ret |-> VAdd(force,
                  VDiv(VScale(VSub(force, self.prev_force), self.tau), dt))]

\* self after the call, and the value returned
ISS_calculate_force(self, force, dt) ==
    [self |-> [self EXCEPT !.prev_force = force],
     ret |-> VAdd(force,
                  VDiv(VScale(VSub(force, self.prev_force), self.tau), dt))]

calculate_vel(self, vel, force, dt) ==
    VSub(vel, VDiv(VDiv(VSub(force, self.prev_force), dt), self.mu_max))

tau(self) == self.tau

mu_max(self) == self.mu_max

set_tau(self, t) ==
    IF Ge(t, Zero)
    THEN [self |-> [self EXCEPT !.tau = t], ok |-> TRUE]
    ELSE [self |-> self, ok |-> FALSE]

\* set_mu_max asserting mu_max >= 0
set_mu_max_accepts_zero(self, m) ==
    IF Ge(m, Zero)
    THEN [self |-> [self EXCEPT !.mu_max = m], ok |-> TRUE]
    ELSE [self |-> self, ok |-> FALSE]

set_mu_max(self, m) ==
    IF Gt(m, Zero)
    THEN [self |-> [self EXCEPT !.mu_max = m], ok |-> TRUE]
    ELSE [self |-> self, ok |-> FALSE]

\* a failed construction panics before the caller's binding is assigned
ISSNew ==
    \E t \in Taus, m \in MuMaxs :
        \E r \in {ISS_new(t, m)} :
            /\ instance' = IF r.ok THEN r.self ELSE instance
            /\ run' = IF r.ok THEN Run_initial ELSE run
            /\ last' = [op |-> "ISS::new", tau |-> t, mu_max |-> m, ok |-> r.ok]

\* repeated: the call before this one was calculate_force with the same force
ISSCalculateForce ==
    /\ instance.type = "ISS"
    /\ \E f \in ForceSamples, dt \in Dts :
        \E r \in {ISS_calculate_force(instance, f, dt)} :
            /\ instance' = r.self
            /\ last' = [op |-> "ISS::calculate_force", force |-> f, dt |-> dt,
                        ret |-> r.ret,
                        repeated |-> /\ last.op = "ISS::calculate_force"
                                     /\ last.force = f]
            /\ UNCHANGED run

ISSCalculateVel ==
    /\ instance.type = "ISS"
    /\ \E v \in VelSamples, f \in ForceSamples, dt \in Dts :
        /\ last' = [op |-> "ISS::calculate_vel", vel |-> v, force |-> f,
                    dt |-> dt, ret |-> calculate_vel(instance, v, f, dt)]
        /\ UNCHANGED <<instance, run>>

ISSGetters ==
    /\ instance.type = "ISS"
    /\ last' = [op |-> "tau, mu_max", ret |-> <<tau(instance), mu_max(instance)>>]
    /\ UNCHANGED <<instance, run>>

ISSSetTau ==
    /\ instance.type = "ISS"
    /\ \E t \in Taus :
        \E r \in {set_tau(instance, t)} :
            /\ instance' = r.self
            /\ last' = [op |-> "set_tau", tau |-> t, ok |-> r.ok]
            /\ UNCHANGED run

ISSSetMuMax ==
    /\ instance.type = "ISS"
    /\ \E m \in MuMaxs :
        \E r \in {set_mu_max(instance, m)} :
            /\ instance' = r.self
            /\ last' = [op |-> "set_mu_max", mu_max |-> m, ok |-> r.ok]
            /\ UNCHANGED run

----------------------------------------------------------------------------
(* TDPA, src/src/tdpa.rs *)

\* calculate_force calls made on one instance
MaxCalls == 3

\* TDPA samples: with vel = (3, 2) and force = (-3, -3) the energy is -15 and
\* dot(vel, vel) is 13, with vel = (7, 0) and force = (-1/7, 0) the energy is
\* -1 and dot(vel, vel) is 49: divisors for which the quotient is rounded
TDPAVels == {Vec(0, 0), Vec(7, 0), Vec(0, -2), Vec(3, 2)}

TDPAForces ==
    {Vec(0, 0), Vec(1, 0), Vec(-2, 1), Vec(-3, -3), <<Make(-1, 7), Zero>>}

TDPA_default ==
    [type |-> "TDPA", alpha |-> Zero, energy |-> Zero, prev_vel |-> ZeroVec]

\* the energy after the step: the energy before it, the power of this step
\* and the energy the previous correction created
TDPA_energy(self, vel, force) ==
    Add(self.energy,
        Add(Dot(force, vel), Mul(self.alpha, Dot(self.prev_vel, self.prev_vel))))

TDPA_alpha(energy, vel, negative) ==
    IF negative THEN Div(Neg(energy), Dot(vel, vel)) ELSE Zero

\* self after the call, the value returned, and whether the division by
\* dot(vel, vel) was evaluated
TDPA_result(self, vel, force, energy, alpha, divided) ==
    [self |-> [self EXCEPT !.alpha = alpha, !.energy = energy,
                           !.prev_vel = vel],
     ret |-> IF Eq(alpha, Zero) THEN force ELSE VAdd(force, VScale(vel, alpha)),
     divided |-> divided]

TDPA_update(self, vel, force, energy) ==
    TDPA_result(self, vel, force, energy,
                TDPA_alpha(energy, vel, Lt(energy, Zero)), Lt(energy, Zero))

\* calculate_force without the energy of the previous correction
TDPA_calculate_force_no_carry(self, vel, force) ==
    TDPA_update(self, vel, force, Add(self.energy, Dot(force, vel)))

\* calculate_force testing energy <= 0
TDPA_calculate_force_le(self, vel, force) ==
    TDPA_result(self, vel, force, TDPA_energy(self, vel, force),
                TDPA_alpha(TDPA_energy(self, vel, force), vel,
                           Ge(Zero, TDPA_energy(self, vel, force))),
                Ge(Zero, TDPA_energy(self, vel, force)))

\* calculate_force dividing by the previous velocity's dot product
TDPA_calculate_force_stale_vel(self, vel, force) ==
    TDPA_result(self, vel, force, TDPA_energy(self, vel, force),
                TDPA_alpha(TDPA_energy(self, vel, force), self.prev_vel,
                           Lt(TDPA_energy(self, vel, force), Zero)),
                Lt(TDPA_energy(self, vel, force), Zero))

TDPA_calculate_force(self, vel, force) ==
    TDPA_update(self, vel, force, TDPA_energy(self, vel, force))

TDPADefault ==
    /\ instance' = TDPA_default
    /\ run' = Run_initial
    /\ last' = [op |-> "TDPA::default"]

\* pre: the instance before the call.  run.calls: the calls made on this
\* instance.  run.all_zero: every call on it so far was given zero vectors.
\* run.guarded: in every call on it so far, vel was nonzero when the energy
\* was negative.
TDPACalculateForce ==
    /\ instance.type = "TDPA"
    /\ run.calls < MaxCalls
    /\ \E v \in TDPAVels, f \in TDPAForces :
        \E r \in {TDPA_calculate_force(instance, v, f)} :
            /\ instance' = r.self
            /\ run' = [calls |-> run.calls + 1,
                       all_zero |-> run.all_zero /\ v = ZeroVec /\ f = ZeroVec,
                       guarded |-> run.guarded /\ ~(r.divided /\ v = ZeroVec)]
            /\ last' = [op |-> "TDPA::calculate_force", vel |-> v, force |-> f,
                        pre |-> instance, ret |-> r.ret, divided |-> r.divided]

----------------------------------------------------------------------------
(* WAVE, src/src/wave.rs *)

\* impedance arguments: out of domain (negative, zero), a positive value b
\* for which sqrt(2b) and sqrt(b/2) are exact (2), and positive values for
\* which they are rounded (3, 100)
Impedances == {R(-2), Zero, Two, R(3), R(100)}

WAVE_new(b) == [type |-> "WAVE", b |-> b]

calculate_u_m(self, force_m, vel_m) ==
    VDiv(VAdd(force_m, VScale(vel_m, self.b)), Sqrt(Mul(self.b, Two)))

calculate_u_s(self, force_s, vel_s) ==
    VDiv(VSub(force_s, VScale(vel_s, self.b)), Sqrt(Mul(self.b, Two)))

calculate_v_m(self, force_m, vel_m) == calculate_u_s(self, force_m, vel_m)

calculate_v_s(self, force_s, vel_s) == calculate_u_m(self, force_s, vel_s)

\* calculate_force_m scaling by sqrt(2b)
calculate_force_m_wrong_scale(self, u_m, v_m) ==
    VScale(VAdd(u_m, v_m), Sqrt(Mul(self.b, Two)))

calculate_force_m(self, u_m, v_m) ==
    VScale(VAdd(u_m, v_m), Sqrt(Div(self.b, Two)))

calculate_force_s(self, u_s, v_s) ==
    VScale(VAdd(u_s, v_s), Sqrt(Div(self.b, Two)))

calculate_vel_m(self, u_m, vel_m) == VDiv(VSub(u_m, vel_m), Mul(self.b, Two))

calculate_vel_s(self, u_s, vel_s) == VDiv(VAdd(u_s, vel_s), Mul(self.b, Two))

WAVENew ==
    \E b \in Impedances :
        /\ instance' = WAVE_new(b)
        /\ last' = [op |-> "WAVE::new", b |-> b, ok |-> TRUE]
        /\ run' = Run_initial

\* The master encodes (force, vel) as the wave pair (u_m, v_m) and decodes the
\* force from the pair.
WAVEForceM ==
    /\ instance.type = "WAVE"
    /\ \E f \in ForceSamples, v \in VelSamples :
        \E u_m \in {calculate_u_m(instance, f, v)},
           v_m \in {calculate_v_m(instance, f, v)} :
            /\ last' = [op |-> "calculate_force_m", force |-> f, vel |-> v,
                        u |-> u_m, v |-> v_m,
                        ret |-> calculate_force_m(instance, u_m, v_m)]
            /\ UNCHANGED <<instance, run>>

\* The slave does the same with (u_s, v_s).
WAVEForceS ==
    /\ instance.type = "WAVE"
    /\ \E f \in ForceSamples, v \in VelSamples :
        \E u_s \in {calculate_u_s(instance, f, v)},
           v_s \in {calculate_v_s(instance, f, v)} :
            /\ last' = [op |-> "calculate_force_s", force |-> f, vel |-> v,
                        u |-> u_s, v |-> v_s,
                        ret |-> calculate_force_s(instance, u_s, v_s)]
            /\ UNCHANGED <<instance, run>>

\* The velocity recovered from an incoming wave and the measured velocity.
WAVEVel ==
    /\ instance.type = "WAVE"
    /\ \E f \in ForceSamples, v \in VelSamples :
        /\ last' = [op |-> "calculate_vel_m, calculate_vel_s",
                    force |-> f, vel |-> v,
                    ret |-> <<calculate_vel_m(instance,
                                              calculate_u_m(instance, f, v), v),
                              calculate_vel_s(instance,
                                              calculate_u_s(instance, f, v), v)>>]
        /\ UNCHANGED <<instance, run>>

----------------------------------------------------------------------------
(* Specifications *)

\* The instance a caller starts from.
DeadbandDetector_initial == DeadbandDetector_new(Make(1, 2), ZeroVec)
ISS_initial == ISS_new(One, One).self
WAVE_initial == WAVE_new(Two)

InitDeadband ==
    /\ instance = DeadbandDetector_initial
    /\ last = [op |-> "init"]
    /\ run = Run_initial

NextDeadband ==
    \/ DDNew
    \/ DDIsInDeadband
    \/ DDSetThreshold
    \/ DDThreshold
    \/ DDSetPrevVals

SpecDeadband == InitDeadband /\ [][NextDeadband]_vars

InitISS ==
    /\ instance = ISS_initial
    /\ last = [op |-> "init"]
    /\ run = Run_initial

NextISS ==
    \/ ISSNew
    \/ ISSCalculateForce
    \/ ISSCalculateVel
    \/ ISSGetters
    \/ ISSSetTau
    \/ ISSSetMuMax

SpecISS == InitISS /\ [][NextISS]_vars

InitTDPA ==
    /\ instance = TDPA_default
    /\ last = [op |-> "init"]
    /\ run = Run_initial

NextTDPA ==
    \/ TDPADefault
    \/ TDPACalculateForce

SpecTDPA == InitTDPA /\ [][NextTDPA]_vars

InitWAVE ==
    /\ instance = WAVE_initial
    /\ last = [op |-> "init"]
    /\ run = Run_initial

NextWAVE ==
    \/ WAVENew
    \/ WAVEForceM
    \/ WAVEForceS
    \/ WAVEVel

SpecWAVE == InitWAVE /\ [][NextWAVE]_vars

(* A caller of the whole crate: it starts with an instance of any of the    *)
(* four types, may replace it by a newly constructed instance of any type,  *)
(* and calls the functions of the instance it holds.                        *)
Init == InitDeadband \/ InitISS \/ InitTDPA \/ InitWAVE

Next ==
    \/ DDNew
    \/ DDIsInDeadband
    \/ DDSetThreshold
    \/ DDThreshold
    \/ DDSetPrevVals
    \/ ISSNew
    \/ ISSCalculateForce
    \/ ISSCalculateVel
    \/ ISSGetters
    \/ ISSSetTau
    \/ ISSSetMuMax
    \/ TDPADefault
    \/ TDPACalculateForce
    \/ WAVENew
    \/ WAVEForceM
    \/ WAVEForceS
    \/ WAVEVel

Spec == Init /\ [][Next]_vars

----------------------------------------------------------------------------
(* Properties *)

Le(x, y) == Ge(y, x)

Max(x, y) == IF Lt(x, y) THEN y ELSE x

\* f64::EPSILON, 2^-52
Epsilon == <<0, 1, <<1>>, -52>>

Magnitude(x) == <<x[1], Abs(x[2]), x[3], x[4]>>

\* |x - y| <= k * EPSILON * scale, in exact arithmetic on finite values
Within(x, y, k, scale) ==
    /\ IsFinite(x)
    /\ IsFinite(y)
    /\ IsFinite(scale)
    /\ Cmp(Magnitude(XAdd(x, Neg(y))), XMul(XMul(R(k), Epsilon), scale)) <= 0

\* C1: between calls the stored deadband equals threshold * norm(prev_vals).
C1_DeadbandIsThresholdTimesNorm ==
    instance.type = "DeadbandDetector" =>
        Eq(instance.deadband, Mul(instance.threshold, VNorm(instance.prev_vals)))

\* C2: with theta = threshold() in [0, 1] and P the retained sample,
\* is_in_deadband(V) returns true iff norm(P - V) <= theta * norm(P).
C2_SuppressedIffWithinThreshold ==
    [][(/\ last'.op = "is_in_deadband"
        /\ Ge(threshold(instance), Zero)
        /\ Le(threshold(instance), One))
       => (last'.ret <=>
              Le(VNorm(VSub(instance.prev_vals, last'.vals)),
                 Mul(threshold(instance), VNorm(instance.prev_vals))))]_vars

\* C3 as claimed: in a run where vel is nonzero whenever the energy is
\* negative, when the energy was negative after one calculate_force call, it
\* is >= 0 after the next call.
C3_EnergyNonNegativeAfterNegative ==
    (/\ last.op = "TDPA::calculate_force"
     /\ run.guarded
     /\ Lt(last.pre.energy, Zero))
        => Ge(instance.energy, Zero)

\* C3 amended: in such a run, when the energy was negative after one
\* calculate_force call, the energy after the next call is that call's
\* dot(force, vel) up to rounding: it differs from it by at most
\* 2 * EPSILON * (|energy before| + |dot(force, vel)|).
C3_EnergyIsLastPowerUpToRounding ==
    (/\ last.op = "TDPA::calculate_force"
     /\ run.guarded
     /\ Lt(last.pre.energy, Zero))
        => Within(instance.energy, Dot(last.force, last.vel), 2,
                  XAdd(Magnitude(last.pre.energy),
                       Magnitude(Dot(last.force, last.vel))))

C3_Witness ==
    /\ last.op = "TDPA::calculate_force"
    /\ run.guarded
    /\ Lt(last.pre.energy, Zero)
    /\ Lt(instance.energy, Zero)
    /\ instance.energy # Dot(last.force, last.vel)

\* C4: a rejected set_threshold, set_tau or set_mu_max leaves every field of
\* its instance as it was; an accepted one stores exactly its argument.
C4_RejectedSetterHasNoEffect ==
    [][/\ last'.op = "set_threshold" =>
            IF Lt(last'.threshold, Zero)
            THEN ~last'.ok /\ instance' = instance
            ELSE last'.ok /\ instance'.threshold = last'.threshold
       /\ last'.op = "set_tau" =>
            IF Lt(last'.tau, Zero)
            THEN ~last'.ok /\ instance' = instance
            ELSE last'.ok /\ instance'.tau = last'.tau
       /\ last'.op = "set_mu_max" =>
            IF Le(last'.mu_max, Zero)
            THEN ~last'.ok /\ instance' = instance
            ELSE last'.ok /\ instance'.mu_max = last'.mu_max]_vars

C4_Witness ==
    /\ last.op = "set_mu_max"
    /\ last.mu_max = Zero
    /\ ~last.ok
    /\ instance.mu_max = R(3)
    /\ instance.prev_force # ZeroVec

\* C5: every instance holds an in-domain configuration, and a constructor
\* given an out-of-domain value fails.
C5_ConfigurationInDomain ==
    /\ instance.type = "DeadbandDetector" => Ge(instance.threshold, Zero)
    /\ instance.type = "ISS" =>
          Ge(instance.tau, Zero) /\ Gt(instance.mu_max, Zero)
    /\ instance.type = "WAVE" => Gt(instance.b, Zero)
    /\ (last.op = "DeadbandDetector::new" /\ Lt(last.threshold, Zero))
          => ~last.ok
    /\ (last.op = "ISS::new" /\ (Le(last.mu_max, Zero) \/ Lt(last.tau, Zero)))
          => ~last.ok
    /\ (last.op = "WAVE::new" /\ Le(last.b, Zero)) => ~last.ok

\* C6 as claimed: for b > 0 the force decoded from the wave pair of (f, v) is
\* f, at the master and at the slave; v_m is u_s and v_s is u_m on the same
\* arguments.
C6_ForceRoundTrip ==
    /\ (last.op = "calculate_force_m" /\ Gt(instance.b, Zero)) =>
          /\ VEq(last.ret, last.force)
          /\ last.u = calculate_u_m(instance, last.force, last.vel)
          /\ last.v = calculate_u_s(instance, last.force, last.vel)
    /\ (last.op = "calculate_force_s" /\ Gt(instance.b, Zero)) =>
          /\ VEq(last.ret, last.force)
          /\ last.u = calculate_u_s(instance, last.force, last.vel)
          /\ last.v = calculate_u_m(instance, last.force, last.vel)

\* C6 amended: for b > 0 the force decoded from the wave pair of (f, v) is f
\* up to rounding, at the master and at the slave: each component differs
\* from that of f by at most 4 * EPSILON * (|f_i| + b * |v_i|); v_m is u_s
\* and v_s is u_m on the same arguments.
C6_ForceRoundTripUpToRounding ==
    /\ (last.op = "calculate_force_m" /\ Gt(instance.b, Zero)) =>
          /\ \A i \in DOMAIN last.force :
                Within(last.ret[i], last.force[i], 4,
                       XAdd(Magnitude(last.force[i]),
                            XMul(instance.b, Magnitude(last.vel[i]))))
          /\ last.u = calculate_u_m(instance, last.force, last.vel)
          /\ last.v = calculate_u_s(instance, last.force, last.vel)
    /\ (last.op = "calculate_force_s" /\ Gt(instance.b, Zero)) =>
          /\ \A i \in DOMAIN last.force :
                Within(last.ret[i], last.force[i], 4,
                       XAdd(Magnitude(last.force[i]),
                            XMul(instance.b, Magnitude(last.vel[i]))))
          /\ last.u = calculate_u_s(instance, last.force, last.vel)
          /\ last.v = calculate_u_m(instance, last.force, last.vel)

C6_Witness ==
    /\ last.op = "calculate_force_s"
    /\ instance.b = R(3)
    /\ last.force = Vec(-2, 1)
    /\ ~VEq(last.ret, last.force)
    /\ last.u # last.v

\* C7: for dt > 0 an ISS calculate_force call right after another one with
\* the same force returns that force, and prev_force is that force.
C7_RepeatedForceIsReturned ==
    (/\ last.op = "ISS::calculate_force"
     /\ last.repeated
     /\ Gt(last.dt, Zero))
        => VEq(last.ret, last.force) /\ instance.prev_force = last.force

C7_Witness ==
    /\ last.op = "ISS::calculate_force"
    /\ last.repeated
    /\ last.dt = Make(1, 1000)
    /\ last.force # ZeroVec
    /\ Lt(instance.tau, Zero)

\* C8: while every calculate_force call gets the zero force and the zero
\* velocity, energy and alpha are 0, the call returns the zero vector and
\* the division by dot(vel, vel) is not evaluated.
C8_ZeroInputsKeepZero ==
    (last.op = "TDPA::calculate_force" /\ run.all_zero)
        => /\ instance.energy = Zero
           /\ instance.alpha = Zero
           /\ last.ret = ZeroVec
           /\ ~last.divided

C8_Witness ==
    /\ last.op = "TDPA::calculate_force"
    /\ run.all_zero
    /\ run.calls >= 2

\* C9: is_in_deadband changes nothing when it returns true; when it returns
\* false, prev_vals is the sample, deadband is threshold * norm(sample) and
\* threshold is as before.
C9_IsInDeadbandFrame ==
    [][last'.op = "is_in_deadband" =>
          IF last'.ret
          THEN instance' = instance
          ELSE /\ instance'.prev_vals = last'.vals
               /\ Eq(instance'.deadband,
                     Mul(instance'.threshold, VNorm(last'.vals)))
               /\ instance'.threshold = instance.threshold
      ]_vars

C9_Witness ==
    /\ last.op = "is_in_deadband"
    /\ last.ret
    /\ last.vals # instance.prev_vals
    /\ instance.threshold = Make(1, 10)

\* C10 as claimed: after a calculate_force call with nonzero vel, prev_vel is
\* vel, alpha is max(0, -energy / dot(prev_vel, prev_vel)), alpha >= 0,
\* energy + alpha * dot(prev_vel, prev_vel) >= 0, and the call returned
\* force + vel * alpha.
C10_AlphaCancelsDeficit ==
    (last.op = "TDPA::calculate_force" /\ last.vel # ZeroVec)
        => /\ instance.prev_vel = last.vel
           /\ Eq(instance.alpha,
                 Max(Zero, Div(Neg(instance.energy),
                               Dot(instance.prev_vel, instance.prev_vel))))
           /\ Ge(instance.alpha, Zero)
           /\ Ge(Add(instance.energy,
                     Mul(instance.alpha,
                         Dot(instance.prev_vel, instance.prev_vel))),
                 Zero)
           /\ VEq(last.ret, VAdd(last.force, VScale(last.vel, instance.alpha)))

\* C10 amended: after a calculate_force call with nonzero vel, from any
\* reachable state, prev_vel is vel, alpha is
\* max(0, -energy / dot(prev_vel, prev_vel)), alpha >= 0 and the call
\* returned force + vel * alpha.  The energy is NaN only in a run in which
\* an earlier call divided by dot(vel, vel) = 0; when it is not NaN,
\* energy + alpha * dot(prev_vel, prev_vel) cancels the deficit up to
\* rounding: it is >= -2 * EPSILON * |energy|, both as the next call
\* computes it and in exact arithmetic.
C10_AlphaCancelsDeficitUpToRounding ==
    (last.op = "TDPA::calculate_force" /\ last.vel # ZeroVec)
        => /\ instance.prev_vel = last.vel
           /\ Eq(instance.alpha,
                 Max(Zero, Div(Neg(instance.energy),
                               Dot(instance.prev_vel, instance.prev_vel))))
           /\ Ge(instance.alpha, Zero)
           /\ IsNaN(instance.energy) => ~run.guarded
           /\ ~IsNaN(instance.energy) =>
                 /\ Ge(Add(instance.energy,
                           Mul(instance.alpha,
                               Dot(instance.prev_vel, instance.prev_vel))),
                       Neg(XMul(XMul(Two, Epsilon),
                                Magnitude(instance.energy))))
                 /\ Cmp(XAdd(instance.energy,
                             XMul(instance.alpha,
                                  Dot(instance.prev_vel, instance.prev_vel))),
                        Neg(XMul(XMul(Two, Epsilon),
                                 Magnitude(instance.energy)))) >= 0
           /\ VEq(last.ret, VAdd(last.force, VScale(last.vel, instance.alpha)))

C10_Witness ==
    /\ last.op = "TDPA::calculate_force"
    /\ last.vel # ZeroVec
    /\ run.guarded
    /\ Lt(instance.energy, Zero)
    /\ Gt(instance.alpha, Zero)
    /\ Lt(Add(instance.energy,
              Mul(instance.alpha, Dot(instance.prev_vel, instance.prev_vel))),
          Zero)

====
